---- MODULE Spec2Model ----
(***************************************************************************)
(* Weather ETL pipeline: extract -> transform -> load_raw -> dbt_run ->    *)
(* quality_check, with the loader's insert-or-skip into raw_weather.       *)
(***************************************************************************)
EXTENDS Integers, Sequences, FiniteSets, TLC

VARIABLES
    raw_weather,    \* rows of table raw_weather, in insertion order
    daily_summary,  \* rows of table daily_summary
    last,           \* the most recent upsert_raw / load call and its outcome
    prev,           \* what the call before it did, when it had the same batch
    resp,           \* the response handed to transform
    tout,           \* what transform returned for resp
    ti,             \* the state of each task instance of the current DAG run
    xcom,           \* the values the tasks of the current run pushed
    started,        \* the tasks the current run executed, in order
    http,           \* the last call of extract: the replies it got, its outcome
    run,            \* the current DAG run: the table it started from, what it re-runs
    handoff,        \* the frame run_load_raw last rebuilt from the pushed JSON
    qc,             \* the last quality check: the tables it counted, its outcome
    dash,           \* the dashboard page: what its refresh callback last returned
    good            \* what the last refresh that read both tables returned

dbVars == <<raw_weather, daily_summary>>
callVars == <<last, prev>>
transformVars == <<resp, tout>>
dagVars == <<ti, xcom, started, http, run, handoff>>
dashVars == <<dash, good>>
vars == <<raw_weather, daily_summary, last, prev, resp, tout, ti, xcom, started, http,
         run, handoff, qc, dash, good>>

----------------------------------------------------------------------------
(* Bounds *)

\* the calendar days 2024-01-01 .. 2024-01-MaxDay occur in responses and
\* batches; a response holds at most MaxDay consecutive days
MaxDay == 2
\* longest batch handed to upsert_raw / load
MaxBatchLen == 2
\* longest list of replies the server gives to the requests of one call
\* before it repeats itself
MaxReplies == 4

----------------------------------------------------------------------------
(* Values *)

\* a float cell: NaN (pandas' null) or a number, counted in quarters so that
\* the mean of two source values (which are multiples of 2) is exact
NaN == [nan |-> TRUE, v |-> 0]
Num(n) == [nan |-> FALSE, v |-> n]

CITY == "Singapore"

\* an ISO-8601 date string "2024-01-dd" of the response
IsoDate(d) == <<2024, 1, d>>
IsoDates == {IsoDate(d) : d \in 1..MaxDay}

\* pd.to_datetime: the Timestamp at midnight of that day
ToDatetime(s) == [y |-> s[1], m |-> s[2], d |-> s[3], ns |-> 0]

\* a Timestamp bound to a DATE column: the time of day is dropped
DbDate(ts) == <<ts.y, ts.m, ts.d>>

----------------------------------------------------------------------------
(* The response of the forecast API *)

SeriesKeys == {"time", "temperature_2m_max", "temperature_2m_min",
               "precipitation_sum", "windspeed_10m_max"}

TMaxVals == {Num(64), NaN}
TMinVals == {Num(50), NaN}
PrecVals == {Num(0), Num(20), NaN}
WindVals == {Num(30), NaN}

\* the entries of one calendar day in the four value series
DayValues ==
    [temperature_2m_max: TMaxVals, temperature_2m_min: TMinVals,
     precipitation_sum: PrecVals, windspeed_10m_max: WindVals]

\* the response for the consecutive days from 2024-01-a on, index-aligned
ResponseOf(a, vals) ==
    [has_daily |-> TRUE,
     daily |-> [k \in SeriesKeys |->
                  [i \in 1..Len(vals) |->
                      IF k = "time" THEN IsoDate(a + i - 1) ELSE vals[i][k]]]]

WellFormedResponses ==
    {ResponseOf(w[1], w[2]) :
        w \in UNION {{a} \X UNION {[1..n -> DayValues] : n \in 0..(MaxDay - a + 1)} :
                        a \in 1..MaxDay}}

\* a response without the key k in its `daily` mapping
DropKey(r, k) ==
    [r EXCEPT !.daily = [j \in (DOMAIN r.daily) \ {k} |-> r.daily[j]]]

\* a response whose series k lost its last entry
Shorten(r, k) ==
    [r EXCEPT !.daily[k] = SubSeq(r.daily[k], 1, Len(r.daily[k]) - 1)]

BaseDay ==
    [temperature_2m_max |-> Num(64), temperature_2m_min |-> Num(50),
     precipitation_sum |-> NaN, windspeed_10m_max |-> Num(30)]

MalformedResponses ==
    {[has_daily |-> FALSE, daily |-> <<>>]}
    \cup {DropKey(ResponseOf(1, ds), k) : k \in SeriesKeys, ds \in {<<>>, <<BaseDay>>}}
    \cup {Shorten(ResponseOf(1, <<BaseDay>>), k) : k \in SeriesKeys}

Responses == WellFormedResponses \cup MalformedResponses

----------------------------------------------------------------------------
(* transform.py *)

\* no fillna: the cell as it came
FillNaOmitted(x) == x

\* Series.fillna(0)
FillNa0(x) == IF x.nan THEN Num(0) ELSE x

\* a + b without the division
SumOnly(a, b) == IF a.nan \/ b.nan THEN NaN ELSE Num(a.v + b.v)

\* (a + b) / 2 on float cells; NaN propagates
Mean2(a, b) == IF a.nan \/ b.nan THEN NaN ELSE Num((a.v + b.v) \div 2)

\* raw_df.fillna(0) on the whole frame: every null cell becomes 0
RawDfRowFillAll(daily, i) ==
    [city            |-> CITY,
     date            |-> ToDatetime(daily["time"][i]),
     temperature_max |-> FillNa0(daily["temperature_2m_max"][i]),
     temperature_min |-> FillNa0(daily["temperature_2m_min"][i]),
     precipitation   |-> FillNa0(daily["precipitation_sum"][i]),
     windspeed_max   |-> FillNa0(daily["windspeed_10m_max"][i])]

\* row i of raw_df: the columns built from the series, then
\* raw_df["precipitation"].fillna(0)
RawDfRow(daily, i) ==
    [city            |-> CITY,
     date            |-> ToDatetime(daily["time"][i]),
     temperature_max |-> daily["temperature_2m_max"][i],
     temperature_min |-> daily["temperature_2m_min"][i],
     precipitation   |-> FillNa0(daily["precipitation_sum"][i]),
     windspeed_max   |-> daily["windspeed_10m_max"][i]]

SummaryRow(r) ==
    [city                |-> r.city,
     date                |-> r.date,
     avg_temperature     |-> Mean2(r.temperature_max, r.temperature_min),
     total_precipitation |-> r.precipitation,
     max_windspeed       |-> r.windspeed_max]

\* the rows of a table that hold no NaN temperature or windspeed
RECURSIVE DropNa(_)
DropNa(rows) ==
    IF rows = <<>> THEN <<>>
    ELSE LET r == Head(rows)
         IN  IF r.temperature_max.nan \/ r.temperature_min.nan \/ r.windspeed_max.nan
             THEN DropNa(Tail(rows))
             ELSE <<r>> \o DropNa(Tail(rows))

\* a transform that drops the rows with a null cell (raw_df.dropna())
TransformDropNa(raw_data) ==
    LET daily == IF raw_data.has_daily THEN raw_data.daily ELSE <<>>
    IN  IF SeriesKeys \ (DOMAIN daily) # {}
        THEN [err |-> "KeyError", raw_df |-> <<>>, summary_df |-> <<>>]
        ELSE IF \E k \in SeriesKeys : Len(daily[k]) # Len(daily["time"])
        THEN [err |-> "ValueError", raw_df |-> <<>>, summary_df |-> <<>>]
        ELSE LET raw_df == DropNa([i \in 1..Len(daily["time"]) |-> RawDfRow(daily, i)])
             IN  [err |-> "none",
                  raw_df |-> raw_df,
                  summary_df |-> [i \in 1..Len(raw_df) |-> SummaryRow(raw_df[i])]]

\* a transform that reads every series with daily.get(key, []): a missing
\* key is an empty series
TransformLenient(raw_data) ==
    LET daily == IF raw_data.has_daily THEN raw_data.daily ELSE <<>>
        get(k) == IF k \in DOMAIN daily THEN daily[k] ELSE <<>>
        full == [k \in SeriesKeys |-> get(k)]
    IN  IF \E k \in SeriesKeys : Len(full[k]) # Len(full["time"])
        THEN [err |-> "ValueError", raw_df |-> <<>>, summary_df |-> <<>>]
        ELSE LET raw_df == [i \in 1..Len(full["time"]) |-> RawDfRow(full, i)]
             IN  [err |-> "none",
                  raw_df |-> raw_df,
                  summary_df |-> [i \in 1..Len(raw_df) |-> SummaryRow(raw_df[i])]]

\* transform(raw_data): (raw_df, summary_df), or the exception it raises
transform(raw_data) ==
    LET daily == IF raw_data.has_daily THEN raw_data.daily ELSE <<>>
    IN  IF SeriesKeys \ (DOMAIN daily) # {}
        THEN [err |-> "KeyError", raw_df |-> <<>>, summary_df |-> <<>>]
        ELSE IF \E k \in SeriesKeys : Len(daily[k]) # Len(daily["time"])
        THEN [err |-> "ValueError", raw_df |-> <<>>, summary_df |-> <<>>]
        ELSE LET raw_df == [i \in 1..Len(daily["time"]) |-> RawDfRow(daily, i)]
             IN  [err |-> "none",
                  raw_df |-> raw_df,
                  summary_df |-> [i \in 1..Len(raw_df) |-> SummaryRow(raw_df[i])]]

NotRun == [err |-> "notrun", raw_df |-> <<>>, summary_df |-> <<>>]

----------------------------------------------------------------------------
(* weather_dag.py: the tasks and what they hand over *)

Tasks == <<"extract", "transform", "load_raw", "dbt_run", "quality_check">>
TaskIds == {Tasks[i] : i \in DOMAIN Tasks}

\* a response without the `daily` mapping
NoData == [has_daily |-> FALSE, daily |-> <<>>]

\* extract was not called
NoHttp == [called |-> FALSE, err |-> "none", returned |-> FALSE, data |-> NoData,
           seen |-> <<>>]

\* a run as the scheduler starts it. The re-run of a failed run carries
\* the table the failed run started from, the task that failed, the fault its
\* load met, the number of rows it had stored, and the response it fetched
NoRerun ==
    [rerun |-> FALSE, start |-> <<>>, failed_at |-> "none", fault |-> "none",
     stored |-> 0, fetched |-> FALSE, data |-> NoData]

\* run_load_raw has rebuilt no frame
NoHandoff == [done |-> FALSE, columns |-> {}, rows |-> <<>>]

\* a DAG run before any of its tasks ran; XCom holds nothing
NoXCom == [raw_data |-> [has_daily |-> FALSE, daily |-> <<>>], raw_df |-> <<>>]
NoDagRun ==
    /\ ti = [t \in TaskIds |-> "none"]
    /\ xcom = NoXCom
    /\ started = <<>>
    /\ http = NoHttp
    /\ run = NoRerun
    /\ handoff = NoHandoff

\* no quality check ran
NoGate ==
    [ran |-> FALSE, reads |-> <<>>, counts |-> <<>>, fault |-> "none",
     err |-> "none", table |-> "none"]

\* the page as served: raw-content and summary-content without children,
\* the banner hidden; no refresh has returned
NoContent == [built |-> FALSE, placeholder |-> FALSE, rows |-> <<>>]
NoPage ==
    [polled |-> FALSE, error |-> FALSE, raw_content |-> NoContent,
     summary_content |-> NoContent, banner_visible |-> FALSE, banner_text |-> "none"]
NoGood == [any |-> FALSE, raw_content |-> NoContent, summary_content |-> NoContent]
NoDash == dash = NoPage /\ good = NoGood

----------------------------------------------------------------------------
(* load.py *)

\* the DataFrames handed to upsert_raw / load
BatchRecords ==
    [city: {CITY}, date: {ToDatetime(s) : s \in IsoDates},
     temperature_max: {Num(64)}, temperature_min: {Num(50)},
     precipitation: {Num(0), Num(20)}, windspeed_max: {Num(30)}]

Batches == UNION {[1..n -> BatchRecords] : n \in 0..MaxBatchLen}

\* what the database does to a call: nothing, the statement aborts after some
\* rows (none, when the connection is lost before it), the COUNT query fails
Faults == {"none", "execute", "count"}

\* the unique index the conflict clause names
Key(row) == <<row.city, row.date>>
KeysOf(rows) == {Key(rows[i]) : i \in DOMAIN rows}

\* raw_df.to_dict(orient="records") bound to the table's columns
ToTableRow(rec) == [rec EXCEPT !.date = DbDate(rec.date)]

\* a plain INSERT: every record becomes a row, whatever is stored
InsertUnconditionally(table, pending, records) ==
    pending \o [i \in 1..Len(records) |-> ToTableRow(records[i])]

\* INSERT ... VALUES (records) ON CONFLICT (city, date) DO NOTHING, row by
\* row: a row whose key is stored, or was inserted earlier by the same
\* statement, is skipped; `pending` are the rows the statement has inserted
RECURSIVE InsertOnConflictDoNothing(_, _, _)
InsertOnConflictDoNothing(table, pending, records) ==
    IF records = <<>> THEN pending
    ELSE LET row == ToTableRow(Head(records))
         IN  IF Key(row) \in KeysOf(table) \cup KeysOf(pending)
             THEN InsertOnConflictDoNothing(table, pending, Tail(records))
             ELSE InsertOnConflictDoNothing(table, Append(pending, row), Tail(records))

\* raw_weather declares city and date NOT NULL, with no default
KeyColumnsNotNull == TRUE

\* pg_insert(table).values([]) names no column: the statement is
\* INSERT INTO raw_weather DEFAULT VALUES, which the NOT NULL key columns reject
DefaultValuesInsert == IF KeyColumnsNotNull THEN "IntegrityError" ELSE "none"

\* a connection in autocommit: what the statement wrote stays, also when it raises
TxnExitKeepsWrites(table, pending, raised) == table \o pending

\* `with engine.begin() as conn:` commits when the block ends normally and
\* rolls back when it raises
TxnExit(table, pending, raised) == IF raised THEN table ELSE table \o pending

\* ON CONFLICT ... DO UPDATE: a stored row takes the values of the batch row
\* with its key
UpsertRawDoUpdate(table, raw_df, fault, k) ==
    LET rows == [i \in 1..Len(raw_df) |-> ToTableRow(raw_df[i])]
        Hit(r) == {i \in DOMAIN rows : Key(rows[i]) = Key(r)}
        Max(S) == CHOOSE m \in S : \A n \in S : n <= m
    IN  [table    |-> [i \in DOMAIN table |->
                          IF Hit(table[i]) = {} THEN table[i]
                          ELSE rows[Max(Hit(table[i]))]]
                      \o InsertOnConflictDoNothing(table, <<>>, raw_df),
         inserted |-> Len(raw_df),
         wrote    |-> raw_df # <<>>,
         err      |-> "none"]

\* upsert_raw(engine, raw_df) under fault, the statement aborting after k rows
\* when fault = "execute": the table afterwards, result.rowcount, the exception
upsert_raw(table, raw_df, fault, k) ==
    IF raw_df = <<>>
    THEN [table |-> TxnExit(table, <<>>, DefaultValuesInsert # "none"),
          inserted |-> 0, wrote |-> FALSE, err |-> DefaultValuesInsert]
    ELSE LET raised  == fault = "execute"
             done    == IF raised THEN SubSeq(raw_df, 1, k) ELSE raw_df
             pending == InsertOnConflictDoNothing(table, <<>>, done)
         IN  [table    |-> TxnExit(table, pending, raised),
              inserted |-> IF raised THEN 0 ELSE Len(pending),
              wrote    |-> pending # <<>>,
              err      |-> IF raised THEN "OperationalError" ELSE "none"]

\* the post-condition off by one
AtMostOneAfterLoad(count) == count <= 1

\* load's post-condition: `if count == 0: raise RuntimeError`
EmptyAfterLoad(count) == count = 0

\* load(raw_df): upsert_raw, then SELECT COUNT(*) on a second connection
load(table, raw_df, fault, k) ==
    LET u == upsert_raw(table, raw_df, fault, k)
        count == Len(u.table)
    IN  IF u.err # "none"
        THEN [table |-> u.table, inserted |-> u.inserted, wrote |-> u.wrote,
              uerr |-> u.err, count |-> -1, err |-> u.err]
        ELSE IF fault = "count"
        THEN [table |-> u.table, inserted |-> u.inserted, wrote |-> u.wrote,
              uerr |-> "none", count |-> -1, err |-> "OperationalError"]
        ELSE [table |-> u.table, inserted |-> u.inserted, wrote |-> u.wrote,
              uerr |-> "none", count |-> count,
              err |-> IF EmptyAfterLoad(count) THEN "RuntimeError" ELSE "none"]

\* the record of a call, kept for the properties below
NoCall ==
    [op |-> "none", batch |-> <<>>, before |-> <<>>, fault |-> "none",
     inserted |-> 0, wrote |-> FALSE, uerr |-> "none", count |-> -1, err |-> "none"]

\* `wrote`: the statement had inserted a row when it ended or aborted
CallRecord(op, batch, fault, out) ==
    [op |-> op, batch |-> batch, before |-> raw_weather, fault |-> fault,
     inserted |-> out.inserted, wrote |-> out.wrote, uerr |-> out.uerr,
     count |-> out.count, err |-> out.err]

\* the keys of a batch that a table does not hold
NewKeys(table, batch) ==
    {Key(ToTableRow(batch[i])) : i \in DOMAIN batch} \ KeysOf(table)

\* of the call before the last one: whether it had the same batch, whether
\* it was itself a repetition, its fault, by how many rows the table grew, how
\* many of its keys were not stored
NoPrev == [same |-> FALSE, again |-> FALSE, fault |-> "none", growth |-> 0, newkeys |-> 0]

PrevRecord(batch) ==
    [same    |-> last.op # "none" /\ last.batch = batch,
     again   |-> prev.same,
     fault   |-> last.fault,
     growth  |-> IF last.op = "none" THEN 0 ELSE Len(raw_weather) - Len(last.before),
     newkeys |-> Cardinality(NewKeys(last.before, last.batch))]

\* load(batch) runs against the table and its outcome is recorded
LoadStep(batch, fault, k) ==
    /\ fault = "execute" => k < Len(batch)
    /\ fault # "execute" => k = 0
    /\ LET out == load(raw_weather, batch, fault, k)
       IN  /\ raw_weather' = out.table
           /\ last' = CallRecord("load", batch, fault, out)
           /\ prev' = PrevRecord(batch)

\* a caller runs load(raw_df) with some batch
LoadCall ==
    /\ last.op = "none"
    /\ \E batch \in Batches, fault \in Faults, k \in 0..MaxBatchLen :
           LoadStep(batch, fault, k)
    /\ UNCHANGED <<daily_summary, transformVars, dagVars, qc, dashVars>>

\* the caller runs load again with the batch of its last call
LoadAgain ==
    /\ last.op # "none"
    /\ \E fault \in Faults, k \in 0..MaxBatchLen : LoadStep(last.batch, fault, k)
    /\ UNCHANGED <<daily_summary, transformVars, dagVars, qc, dashVars>>

\* the caller is done with that batch
CallerDone ==
    /\ last.op # "none"
    /\ last' = NoCall
    /\ prev' = NoPrev
    /\ UNCHANGED <<dbVars, transformVars, dagVars, qc, dashVars>>

\* the tables as deployed, and nothing called or scheduled yet
NoTransform == resp = ResponseOf(1, <<>>) /\ tout = NotRun
NoLoad == last = NoCall /\ prev = NoPrev

InitLoad ==
    /\ raw_weather = <<>>
    /\ daily_summary = <<>>
    /\ NoLoad
    /\ NoTransform
    /\ NoDagRun
    /\ qc = NoGate
    /\ NoDash

NextLoad == LoadCall \/ LoadAgain \/ CallerDone

SpecLoad == InitLoad /\ [][NextLoad]_vars

----------------------------------------------------------------------------
(* transform applied to a response *)

TransformCall ==
    /\ tout = NotRun
    /\ tout' = transform(resp)
    /\ UNCHANGED <<resp, dbVars, callVars, dagVars, qc, dashVars>>

InitTransform ==
    /\ resp \in Responses
    /\ tout = NotRun
    /\ raw_weather = <<>>
    /\ daily_summary = <<>>
    /\ NoLoad
    /\ NoDagRun
    /\ qc = NoGate
    /\ NoDash


----------------------------------------------------------------------------
(* extract.py *)

\* what the forecast API answers in the pipeline: the days as the pipeline
\* stores them, precipitation null on a dry day
ApiDayValues ==
    [temperature_2m_max: {Num(64)}, temperature_2m_min: {Num(50)},
     precipitation_sum: {NaN, Num(20)}, windspeed_10m_max: {Num(30)}]

ApiResponses ==
    {ResponseOf(w[1], w[2]) :
        w \in UNION {{a} \X UNION {[1..n -> ApiDayValues] : n \in 0..(MaxDay - a + 1)} :
                        a \in 1..MaxDay}}
    \cup {[has_daily |-> FALSE, daily |-> <<>>]}

\* the statuses the server answers the GET with: success, a client error,
\* too many requests, a server error outside the forcelist, a server error
\* of the forcelist
HttpStatuses == {200, 404, 429, 501, 503}

\* what the server does to the requests of one call: reply i has status
\* script[i], and the last status again once the script is used up
HttpScripts == UNION {[1..n -> HttpStatuses] : n \in 1..MaxReplies}

\* the server during a DAG run: it answers every request of the run alike
PipelineScripts == {<<st>> : st \in HttpStatuses}

ReplyAt(script, i) == script[IF i <= Len(script) THEN i ELSE Len(script)]

\* _build_session: Retry(total=3, backoff_factor=1,
\* status_forcelist=[429, 500, 502, 503, 504]) mounted on https://
RetryTotal == 3
StatusForcelist == {429, 500, 502, 503, 504}

\* forcelist reduced to the server errors
IsRetryServerErrorOnly(status) == status >= 500

\* Retry.is_retry for a GET: the status is in status_forcelist
is_retry(status) == status \in StatusForcelist

\* a retry budget that ends one request later
IsExhaustedLate(total) == total < -1

\* Retry.is_exhausted: a count has gone below zero
is_exhausted(total) == total < 0

\* session.get(API_URL): the adapter sends the request and, on a status the
\* Retry object retries, decrements `total` and sends it again until the
\* decremented total is exhausted; `seen` are the statuses of the replies to
\* the requests sent so far
RECURSIVE session_get(_, _, _)
session_get(script, seen, total) ==
    LET status == ReplyAt(script, Len(seen) + 1)
        replies == Append(seen, status)
    IN  IF is_retry(status)
        THEN IF is_exhausted(total - 1)
             THEN [err |-> "RetryError", status |-> status, seen |-> replies]
             ELSE session_get(script, replies, total - 1)
        ELSE [err |-> "none", status |-> status, seen |-> replies]

\* an extract that logs the failure and returns an empty mapping
ExtractSwallowsError(script, body) ==
    LET response == session_get(script, <<>>, RetryTotal)
    IN  IF response.err = "none" /\ response.status < 400
        THEN [err |-> "none", returned |-> TRUE, data |-> body, seen |-> response.seen]
        ELSE [err |-> "none", returned |-> TRUE, data |-> NoData, seen |-> response.seen]

\* extract(): session.get, raise_for_status(), response.json(); `body` is
\* the JSON the server sends with a 200
extract(script, body) ==
    LET response == session_get(script, <<>>, RetryTotal)
    IN  IF response.err # "none"
        THEN [err |-> response.err, returned |-> FALSE, data |-> NoData,
              seen |-> response.seen]
        ELSE IF response.status >= 400
        THEN [err |-> "HTTPError", returned |-> FALSE, data |-> NoData,
              seen |-> response.seen]
        ELSE [err |-> "none", returned |-> TRUE, data |-> body, seen |-> response.seen]

\* extract() called on its own, against any server
ExtractCall ==
    /\ ~http.called
    /\ \E script \in HttpScripts, body \in ApiResponses :
           LET out == extract(script, body)
           IN  /\ out.returned \/ body = NoData
               /\ http' = [called |-> TRUE, err |-> out.err, returned |-> out.returned,
                            data |-> out.data, seen |-> out.seen]
    /\ UNCHANGED <<dbVars, callVars, transformVars, ti, xcom, started, run, handoff, qc,
                 dashVars>>

InitExtract ==
    /\ raw_weather = <<>>
    /\ daily_summary = <<>>
    /\ NoLoad
    /\ NoTransform
    /\ NoDagRun
    /\ qc = NoGate
    /\ NoDash

NextExtract == ExtractCall

SpecExtract == InitExtract /\ [][NextExtract]_vars

----------------------------------------------------------------------------
(* weather_dag.py: the task callables *)

\* Timestamp -> "yyyy-mm-ddThh:mm:ss.mmm" (date_format="iso") and back
IsoFormat(ts) == [y |-> ts.y, m |-> ts.m, d |-> ts.d, ms |-> ts.ns \div 1000000]
ParseIso(str) == [y |-> str.y, m |-> str.m, d |-> str.d, ns |-> str.ms * 1000000]

\* raw_df.to_json(orient="records", date_format="iso"): one object per row
to_json(df) == [i \in DOMAIN df |-> [df[i] EXCEPT !.date = IsoFormat(@)]]

RawColumns == {"city", "date", "temperature_max", "temperature_min",
               "precipitation", "windspeed_max"}

\* pd.read_json(raw_json, orient="records"): the columns are the keys of the
\* objects, so an empty array gives a frame without columns
read_json(json) ==
    [columns |-> IF json = <<>> THEN {} ELSE RawColumns,
     rows    |-> [i \in DOMAIN json |-> [json[i] EXCEPT !.date = ParseIso(@)]]]

\* run_load_raw: rebuild raw_df from XCom, then load(raw_df)
run_load_raw(table, raw_json, fault, k) ==
    LET raw_df == read_json(raw_json)
    IN  IF "date" \notin raw_df.columns
        THEN [table |-> table, inserted |-> 0, wrote |-> FALSE, uerr |-> "none",
              count |-> -1, err |-> "KeyError"]
        ELSE load(table, raw_df.rows, fault, k)

\* the frame run_load_raw has after pd.read_json
Rebuilt(raw_json) ==
    [done |-> TRUE, columns |-> read_json(raw_json).columns,
     rows |-> read_json(raw_json).rows]

\* what run_transform pushed is handed to run_load_raw: the frame transform
\* returned goes through to_json, XCom and read_json into load
HandoffCall ==
    /\ tout.err = "none"
    /\ ~handoff.done
    /\ \E fault \in Faults, k \in 0..MaxDay :
           /\ fault = "execute" => k < Len(tout.raw_df)
           /\ fault # "execute" => k = 0
           /\ LET raw_json == to_json(tout.raw_df)
                  out == run_load_raw(raw_weather, raw_json, fault, k)
              IN  /\ raw_weather' = out.table
                  /\ last' = CallRecord(IF out.err = "KeyError" THEN "none" ELSE "load",
                                         read_json(raw_json).rows, fault, out)
                  /\ prev' = PrevRecord(read_json(raw_json).rows)
                  /\ handoff' = Rebuilt(raw_json)
    /\ UNCHANGED <<daily_summary, transformVars, ti, xcom, started, http, run, qc, dashVars>>

NextTransform == TransformCall \/ HandoffCall

SpecTransform == InitTransform /\ [][NextTransform]_vars

\* dbt run: daily_summary is rebuilt from raw_weather, one row per city-day
DbtDailySummary(raw) == [i \in DOMAIN raw |-> SummaryRow(raw[i])]

\* only raw_weather is counted
GateTablesRawOnly == <<"raw_weather">>

\* the tables run_quality_check counts, in its order
GateTables == <<"raw_weather", "daily_summary">>

TableRows(name, raw, summary) == IF name = "raw_weather" THEN raw ELSE summary

\* the loop of run_quality_check: SELECT COUNT(*) per table, ValueError naming
\* the first table with 0 rows
RECURSIVE CountTables(_, _, _, _, _)
CountTables(tables, raw, summary, reads, counts) ==
    IF tables = <<>>
    THEN [ran |-> TRUE, reads |-> reads, counts |-> counts, fault |-> "none",
          err |-> "none", table |-> "none"]
    ELSE LET count == Len(TableRows(Head(tables), raw, summary))
         IN  IF count = 0
             THEN [ran |-> TRUE, reads |-> Append(reads, Head(tables)),
                   counts |-> Append(counts, count), fault |-> "none",
                   err |-> "ValueError", table |-> Head(tables)]
             ELSE CountTables(Tail(tables), raw, summary,
                              Append(reads, Head(tables)), Append(counts, count))

\* run_quality_check; under fault "connect" engine.connect() raises
run_quality_check(raw, summary, fault) ==
    IF fault = "connect"
    THEN [ran |-> TRUE, reads |-> <<>>, counts |-> <<>>, fault |-> "connect",
          err |-> "OperationalError", table |-> "none"]
    ELSE CountTables(GateTables, raw, summary, <<>>, <<>>)

GateFaults == {"none", "connect"}

\* quality_check hangs on load_raw, beside dbt_run
UpstreamFanOut(t) ==
    IF t = "quality_check" THEN {"load_raw"}
    ELSE {Tasks[i - 1] : i \in {j \in 2..Len(Tasks) : Tasks[j] = t}}

\* extract_task >> transform_task >> load_raw_task >> dbt_task >> quality_task
Upstream(t) == {Tasks[i - 1] : i \in {j \in 2..Len(Tasks) : Tasks[j] = t}}

----------------------------------------------------------------------------
(* The scheduled DAG run: a task runs once all its upstream tasks succeeded *)

Runnable(t) == ti[t] = "none" /\ \A u \in Upstream(t) : ti[u] = "success"

Finish(t, err) ==
    /\ ti' = [ti EXCEPT ![t] = IF err = "none" THEN "success" ELSE "failed"]
    /\ started' = Append(started, t)

RunExtract ==
    /\ Runnable("extract")
    /\ \E script \in PipelineScripts, body \in ApiResponses :
           LET out == extract(script, body)
           IN  /\ out.returned \/ body = NoData
               /\ http' = [called |-> TRUE, err |-> out.err, returned |-> out.returned,
                            data |-> out.data, seen |-> out.seen]
               /\ xcom' = IF out.err = "none"
                          THEN [xcom EXCEPT !.raw_data = out.data] ELSE xcom
               /\ run' = IF ~run.rerun \/ ~out.returned THEN run
                         ELSE IF ~run.fetched
                         THEN [run EXCEPT !.fetched = TRUE, !.data = out.data]
                         ELSE IF out.data = run.data THEN run
                         ELSE NoRerun
               /\ Finish("extract", out.err)
    /\ UNCHANGED <<dbVars, callVars, transformVars, handoff, qc, dashVars>>

RunTransform ==
    /\ Runnable("transform")
    /\ LET out == transform(xcom.raw_data)
       IN  /\ xcom' = IF out.err = "none"
                      THEN [xcom EXCEPT !.raw_df = to_json(out.raw_df)] ELSE xcom
           /\ Finish("transform", out.err)
    /\ UNCHANGED <<dbVars, callVars, transformVars, qc, http, run, handoff, dashVars>>

RunLoadRaw ==
    /\ Runnable("load_raw")
    /\ \E fault \in Faults, k \in 0..MaxDay :
           /\ fault = "execute" => k < Len(xcom.raw_df)
           /\ fault # "execute" => k = 0
           /\ LET out == run_load_raw(raw_weather, xcom.raw_df, fault, k)
              IN  /\ raw_weather' = out.table
                  /\ last' = CallRecord(IF out.err = "KeyError" THEN "none" ELSE "load",
                                         read_json(xcom.raw_df).rows, fault, out)
                  /\ prev' = PrevRecord(read_json(xcom.raw_df).rows)
                  /\ handoff' = Rebuilt(xcom.raw_df)
                  /\ Finish("load_raw", out.err)
    /\ UNCHANGED <<daily_summary, xcom, transformVars, qc, http, run, dashVars>>

RunDbt ==
    /\ Runnable("dbt_run")
    /\ \E ok \in BOOLEAN :
           /\ daily_summary' = IF ok THEN DbtDailySummary(raw_weather) ELSE daily_summary
           /\ Finish("dbt_run", IF ok THEN "none" ELSE "AirflowException")
    /\ UNCHANGED <<raw_weather, callVars, xcom, transformVars, qc, http, run, handoff, dashVars>>

RunQualityCheck ==
    /\ Runnable("quality_check")
    /\ \E fault \in GateFaults :
           LET out == run_quality_check(raw_weather, daily_summary, fault)
           IN  /\ qc' = out
               /\ Finish("quality_check", out.err)
    /\ UNCHANGED <<dbVars, callVars, xcom, transformVars, http, run, handoff, dashVars>>

\* a task below a failed task is never run
SkipDownstream ==
    /\ \E t \in TaskIds :
           /\ ti[t] = "none"
           /\ \E u \in Upstream(t) : ti[u] \in {"failed", "upstream_failed"}
           /\ ti' = [ti EXCEPT ![t] = "upstream_failed"]
    /\ UNCHANGED <<dbVars, callVars, xcom, started, transformVars, qc, http, run, handoff, dashVars>>

\* raw_weather as the current run found it: only load_raw writes to it
RunStart == IF last.op = "load" THEN last.before ELSE raw_weather

\* the task of the run that failed
FailedTask == CHOOSE t \in TaskIds : ti[t] = "failed"

\* the run is over and failed; its task instances are cleared and the whole
\* pipeline runs again
RerunFailed ==
    /\ \A t \in TaskIds : ti[t] # "none"
    /\ \E t \in TaskIds : ti[t] = "failed"
    /\ ti' = [t \in TaskIds |-> "none"]
    /\ xcom' = NoXCom
    /\ started' = <<>>
    /\ http' = NoHttp
    /\ handoff' = NoHandoff
    /\ qc' = NoGate
    /\ last' = NoCall
    /\ prev' = NoPrev
    /\ run' = IF run.rerun THEN run
              ELSE [rerun     |-> TRUE,
                    start     |-> RunStart,
                    failed_at |-> FailedTask,
                    fault     |-> last.fault,
                    stored    |-> Len(raw_weather) - Len(RunStart),
                    fetched   |-> http.returned,
                    data      |-> http.data]
    /\ UNCHANGED <<dbVars, transformVars, dashVars>>

\* the run is over; the scheduler starts the next day's run
NewRun ==
    /\ \A t \in TaskIds : ti[t] # "none"
    /\ ti' = [t \in TaskIds |-> "none"]
    /\ xcom' = NoXCom
    /\ started' = <<>>
    /\ http' = NoHttp
    /\ run' = NoRerun
    /\ handoff' = NoHandoff
    /\ qc' = NoGate
    /\ last' = NoCall
    /\ prev' = NoPrev
    /\ UNCHANGED <<dbVars, transformVars, dashVars>>

Init ==
    /\ raw_weather = <<>>
    /\ daily_summary = <<>>
    /\ NoLoad
    /\ NoTransform
    /\ NoDagRun
    /\ qc = NoGate
    /\ NoDash

Next ==
    \/ RunExtract
    \/ RunTransform
    \/ RunLoadRaw
    \/ RunDbt
    \/ RunQualityCheck
    \/ SkipDownstream
    \/ RerunFailed
    \/ NewRun

Spec == Init /\ [][Next]_vars

----------------------------------------------------------------------------
(* The quality gate run against any content of the two tables *)

\* the tables raw_weather can hold: rows with pairwise distinct keys
StoredTables ==
    {[i \in DOMAIN b |-> ToTableRow(b[i])] :
        b \in {c \in Batches : \A i, j \in DOMAIN c : i # j => Key(c[i]) # Key(c[j])}}

QualityCheckCall ==
    /\ ~qc.ran
    /\ \E fault \in GateFaults :
           qc' = run_quality_check(raw_weather, daily_summary, fault)
    /\ UNCHANGED <<dbVars, callVars, transformVars, dagVars, dashVars>>

InitGate ==
    /\ raw_weather \in StoredTables
    /\ daily_summary \in {DbtDailySummary(t) : t \in StoredTables}
    /\ qc = NoGate
    /\ NoDash
    /\ NoLoad
    /\ NoTransform
    /\ NoDagRun

NextGate == QualityCheckCall

SpecGate == InitGate /\ [][NextGate]_vars

----------------------------------------------------------------------------
(* dashboard/app.py *)

\* date a sorts before date b
DateBefore(a, b) ==
    \/ a[1] < b[1]
    \/ a[1] = b[1] /\ a[2] < b[2]
    \/ a[1] = b[1] /\ a[2] = b[2] /\ a[3] < b[3]

\* SELECT * FROM <table> ORDER BY city, date; every row has the one city
RECURSIVE OrderByCityDate(_)
OrderByCityDate(rows) ==
    IF rows = <<>> THEN <<>>
    ELSE LET first == CHOOSE i \in DOMAIN rows :
                          \A j \in DOMAIN rows :
                              j # i => (DateBefore(rows[i].date, rows[j].date)
                                        \/ (rows[i].date = rows[j].date /\ i < j))
             rest == [k \in 1..(Len(rows) - 1) |->
                         IF k < first THEN rows[k] ELSE rows[k + 1]]
         IN  <<rows[first]>> \o OrderByCityDate(rest)

\* the read that fails during a poll, if one does
ReadFaults == {"none", "raw_weather", "daily_summary"}

\* get_data(): (raw_df, summary_df, error); when a read raises, two empty
\* frames and the message
get_data(raw, summary, fault) ==
    IF fault # "none"
    THEN [raw_df |-> <<>>, summary_df |-> <<>>, error |-> TRUE]
    ELSE [raw_df |-> OrderByCityDate(raw), summary_df |-> OrderByCityDate(summary),
          error |-> FALSE]

\* build_tab_raw / build_tab_summary: the placeholder for an empty frame,
\* else the charts and the table of the frame's rows
build_tab_raw(raw_df) ==
    [built |-> TRUE, placeholder |-> raw_df = <<>>, rows |-> raw_df]
build_tab_summary(summary_df) ==
    [built |-> TRUE, placeholder |-> summary_df = <<>>, rows |-> summary_df]

\* refresh_data(n_intervals): the four outputs of the callback
refresh_data(raw, summary, fault) ==
    LET d == get_data(raw, summary, fault)
    IN  [polled          |-> TRUE,
         error           |-> d.error,
         raw_content     |-> build_tab_raw(d.raw_df),
         summary_content |-> build_tab_summary(d.summary_df),
         banner_visible  |-> d.error,
         banner_text     |-> IF d.error
                             THEN "Database unreachable - charts show last loaded data"
                             ELSE ""]

\* the interval fires (at page load, then every 5 minutes) and the page
\* takes what refresh_data returns
RefreshData ==
    /\ \E fault \in ReadFaults :
           LET out == refresh_data(raw_weather, daily_summary, fault)
           IN  /\ dash' = out
               /\ good' = IF out.error THEN good
                          ELSE [any |-> TRUE, raw_content |-> out.raw_content,
                                summary_content |-> out.summary_content]
    /\ UNCHANGED <<dbVars, callVars, transformVars, dagVars, qc>>

\* the tables as a pipeline run left them: daily_summary not built yet, built
\* from raw_weather, or built before the rows of the last load came
InitDash ==
    /\ raw_weather \in StoredTables
    /\ \E n \in 0..Len(raw_weather) :
           daily_summary = DbtDailySummary(SubSeq(raw_weather, 1, n))
    /\ NoDash
    /\ qc = NoGate
    /\ NoLoad
    /\ NoTransform
    /\ NoDagRun

NextDash == RefreshData

SpecDash == InitDash /\ [][NextDash]_vars

----------------------------------------------------------------------------
(* Properties of the loader, under SpecLoad *)

Called == last.op # "none"
BatchRows == [i \in 1..Len(last.batch) |-> ToTableRow(last.batch[i])]

C2_FirstLoadInsertsAllRows ==
    (/\ prev.same /\ ~prev.again
     /\ prev.fault = "none" /\ last.fault = "none"
     /\ \A i, j \in DOMAIN last.batch :
            i # j => Key(last.batch[i]) # Key(last.batch[j]))
        => /\ prev.growth = Len(last.batch)
           /\ last.inserted = 0
           /\ Len(raw_weather) = Len(last.before)

\* C2 amended: of two loads of one batch in a row, the first inserts one row
\* for each key of the batch that was not stored, the second inserts none,
\* and the row count after the second is the count after the first
C2_ReloadInsertsNothing ==
    (prev.same /\ prev.fault = "none")
        => /\ prev.growth = prev.newkeys
           /\ last.inserted = 0
           /\ Len(raw_weather) = Len(last.before)
           /\ raw_weather = last.before

\* the first of two such loads met a table that held one of its keys already
C2_Witness ==
    /\ prev.same /\ prev.fault = "none" /\ last.fault = "none"
    /\ prev.growth >= 1 /\ prev.growth < Len(last.batch)
    /\ last.uerr = "none"

\* C3: upsert_raw returns, without error, the number of batch rows whose key
\* was not stored (a key the batch repeats counting once)
C3_ReturnsCountOfNewKeys ==
    (Called /\ last.fault = "none")
        => /\ last.uerr = "none"
           /\ last.inserted = Cardinality(NewKeys(last.before, last.batch))

\* C4: every row stored before a load is stored after it, unchanged and in
\* its place, also when the batch has a row with its key and other values
C4_StoredRowsUnchanged ==
    Called =>
        /\ Len(raw_weather) >= Len(last.before)
        /\ SubSeq(raw_weather, 1, Len(last.before)) = last.before

\* a load went through whose batch had other values for a stored key
C4_Witness ==
    /\ Called /\ last.uerr = "none"
    /\ \E i \in DOMAIN BatchRows, j \in DOMAIN last.before :
           /\ Key(BatchRows[i]) = Key(last.before[j])
           /\ BatchRows[i] # last.before[j]

\* C5: when the insert succeeds the table is the old one plus one row for
\* each new key of the batch; when it fails for another reason than a key
\* conflict the table is the old one and the caller gets the error
C5_InsertIsAtomic ==
    Called =>
        IF last.uerr = "none"
        THEN /\ SubSeq(raw_weather, 1, Len(last.before)) = last.before
             /\ KeysOf(raw_weather) = KeysOf(last.before) \cup KeysOf(BatchRows)
             /\ \A j \in DOMAIN raw_weather :
                    j > Len(last.before) =>
                        \E i \in DOMAIN BatchRows : raw_weather[j] = BatchRows[i]
        ELSE /\ raw_weather = last.before
             /\ last.err = last.uerr

\* the statement aborted after it had inserted a row with a new key
C5_Witness ==
    /\ Called /\ last.fault = "execute" /\ last.wrote
    /\ last.err = "OperationalError"

\* C6: load raises RuntimeError exactly when its COUNT query answers zero,
\* so a load that returns leaves at least one row, whatever the batch
C6_LoadLeavesRows ==
    last.op = "load" =>
        /\ last.err = "none" => (Len(raw_weather) >= 1 /\ last.count = Len(raw_weather))
        /\ last.err = "RuntimeError"
              <=> (last.uerr = "none" /\ last.fault # "count" /\ Len(raw_weather) = 0)

\* a load returned although it inserted nothing: every key was stored
C6_Witness ==
    /\ last.op = "load" /\ last.err = "none"
    /\ last.inserted = 0 /\ Len(raw_weather) >= 1

----------------------------------------------------------------------------
(* Properties of the quality gate, under SpecGate *)

\* C7: the gate counts the rows of raw_weather and of daily_summary; when one
\* of them has none it fails with an error naming a table that has 0 rows,
\* when both have rows it counts both and succeeds; the tables are as it
\* counted them
C7_GateNamesEmptyTable ==
    (qc.ran /\ qc.fault = "none") =>
        /\ (raw_weather = <<>> \/ daily_summary = <<>>) =>
               /\ qc.err = "ValueError"
               /\ qc.table \in {"raw_weather", "daily_summary"}
               /\ TableRows(qc.table, raw_weather, daily_summary) = <<>>
        /\ (raw_weather # <<>> /\ daily_summary # <<>>) =>
               /\ qc.err = "none"
               /\ qc.reads = <<"raw_weather", "daily_summary">>
        /\ \A i \in DOMAIN qc.reads :
               qc.counts[i] = Len(TableRows(qc.reads[i], raw_weather, daily_summary))

\* the gate ran on a filled raw_weather and an empty daily_summary
C7_Witness ==
    /\ qc.ran /\ qc.fault = "none"
    /\ raw_weather # <<>> /\ daily_summary = <<>>
    /\ qc.err = "ValueError" /\ qc.table = "daily_summary"

\* the gate ran on two filled tables
C7_WitnessPass ==
    /\ qc.ran /\ qc.err = "none"
    /\ raw_weather # <<>> /\ daily_summary # <<>>

----------------------------------------------------------------------------
(* Properties of the DAG run, under Spec *)

Ran(t) == \E i \in DOMAIN started : started[i] = t

\* C8: the tasks of a run execute in the order extract, transform, load_raw,
\* dbt_run, quality_check, each only after the one before it succeeded, none
\* after a failed one, and quality_check counts daily_summary only after the
\* run's dbt_run succeeded
C8_StrictSequence ==
    /\ Len(started) <= Len(Tasks)
    /\ \A i \in DOMAIN started : started[i] = Tasks[i]
    /\ \A i \in DOMAIN started : i < Len(started) => ti[started[i]] = "success"
    /\ \A t \in TaskIds : Ran(t) <=> ti[t] \in {"success", "failed"}
    /\ (\E i \in DOMAIN qc.reads : qc.reads[i] = "daily_summary")
           => ti["dbt_run"] = "success"

\* a run went through all five tasks
C8_Witness ==
    /\ started = Tasks
    /\ ti["quality_check"] = "success"
    /\ qc.reads = <<"raw_weather", "daily_summary">>

\* a run failed in load_raw and the two tasks below it were not run
C8_WitnessFailed ==
    /\ started = <<"extract", "transform", "load_raw">>
    /\ ti["load_raw"] = "failed"
    /\ ti["dbt_run"] = "upstream_failed"
    /\ ti["quality_check"] = "upstream_failed"

----------------------------------------------------------------------------
(* Properties of transform, under SpecTransform *)

\* the response has the `daily` mapping with `time` and the four series, all
\* of one length
WellFormed(r) ==
    /\ r.has_daily
    /\ DOMAIN r.daily = SeriesKeys
    /\ \A k \in SeriesKeys : Len(r.daily[k]) = Len(r.daily["time"])

Transformed == tout # NotRun

\* C9: for a well-formed response of N days transform returns, without
\* error, N RawObservation rows and N DailySummary rows, row i of both with
\* city Singapore and the day of time[i]; N = 0 gives two empty tables
C9_OneRowPerDay ==
    (Transformed /\ WellFormed(resp)) =>
        LET time == resp.daily["time"]
        IN  /\ tout.err = "none"
            /\ Len(tout.raw_df) = Len(time)
            /\ Len(tout.summary_df) = Len(time)
            /\ \A i \in 1..Len(time) :
                   /\ tout.raw_df[i].city = "Singapore"
                   /\ tout.summary_df[i].city = "Singapore"
                   /\ DbDate(tout.raw_df[i].date) = time[i]
                   /\ tout.raw_df[i].date.ns = 0
                   /\ tout.summary_df[i].date = tout.raw_df[i].date

\* transform ran on a response of two days, one with a null temperature
C9_Witness ==
    /\ Transformed /\ WellFormed(resp)
    /\ Len(resp.daily["time"]) >= 2
    /\ resp.daily["temperature_2m_max"][1].nan
    /\ Len(tout.raw_df) >= 2

\* transform ran on the response with empty series
C9_WitnessEmpty ==
    /\ Transformed /\ WellFormed(resp)
    /\ resp.daily["time"] = <<>>
    /\ tout.err = "none" /\ tout.raw_df = <<>> /\ tout.summary_df = <<>>

\* C10: no RawObservation row of transform has a null precipitation: a null
\* entry of precipitation_sum becomes 0, any other entry is kept
C10_PrecipitationNotNull ==
    (Transformed /\ tout.err = "none") =>
        \A i \in DOMAIN tout.raw_df :
            LET src == resp.daily["precipitation_sum"][i]
                out == tout.raw_df[i].precipitation
            IN  /\ ~out.nan
                /\ src.nan => out.v = 0
                /\ ~src.nan => out = src

\* transform ran on a response with a null and a non-zero precipitation
C10_Witness ==
    /\ Transformed /\ tout.err = "none"
    /\ \E i, j \in DOMAIN tout.raw_df :
           /\ resp.daily["precipitation_sum"][i].nan
           /\ resp.daily["precipitation_sum"][j] = Num(20)

\* C11: row i of raw_df holds temperature_2m_max[i], temperature_2m_min[i]
\* and windspeed_10m_max[i] as they came; a null entry stays null
C11_TemperatureWindPassThrough ==
    (Transformed /\ tout.err = "none") =>
        \A i \in DOMAIN tout.raw_df :
            /\ tout.raw_df[i].temperature_max = resp.daily["temperature_2m_max"][i]
            /\ tout.raw_df[i].temperature_min = resp.daily["temperature_2m_min"][i]
            /\ tout.raw_df[i].windspeed_max = resp.daily["windspeed_10m_max"][i]
            /\ resp.daily["temperature_2m_max"][i].nan => tout.raw_df[i].temperature_max.nan
            /\ resp.daily["temperature_2m_min"][i].nan => tout.raw_df[i].temperature_min.nan
            /\ resp.daily["windspeed_10m_max"][i].nan => tout.raw_df[i].windspeed_max.nan

\* transform ran on a response with a null temperature, a null windspeed and
\* a temperature that is not null
C11_Witness ==
    /\ Transformed /\ tout.err = "none"
    /\ \E i, j \in DOMAIN tout.raw_df :
           /\ resp.daily["temperature_2m_min"][i].nan
           /\ resp.daily["windspeed_10m_max"][i].nan
           /\ resp.daily["temperature_2m_max"][j] = Num(64)

\* C12: row i of summary_df has avg_temperature = (temperature_max +
\* temperature_min) / 2 of row i of raw_df (null when one of the two is),
\* total_precipitation = its precipitation after the null-to-zero
\* replacement, and max_windspeed = its windspeed_max
C12_SummaryFormulas ==
    (Transformed /\ tout.err = "none") =>
        /\ Len(tout.summary_df) = Len(tout.raw_df)
        /\ \A i \in DOMAIN tout.summary_df :
               LET r == tout.raw_df[i]
                   s == tout.summary_df[i]
               IN  /\ s.avg_temperature.nan
                          <=> (r.temperature_max.nan \/ r.temperature_min.nan)
                   /\ ~s.avg_temperature.nan =>
                          2 * s.avg_temperature.v = r.temperature_max.v + r.temperature_min.v
                   /\ s.total_precipitation = r.precipitation
                   /\ s.total_precipitation = FillNa0(resp.daily["precipitation_sum"][i])
                   /\ s.max_windspeed = r.windspeed_max

\* transform ran on a response with a day of two temperatures and a null
\* precipitation
C12_Witness ==
    /\ Transformed /\ tout.err = "none"
    /\ \E i \in DOMAIN tout.summary_df :
           /\ tout.raw_df[i].temperature_max = Num(64)
           /\ tout.raw_df[i].temperature_min = Num(50)
           /\ tout.summary_df[i].avg_temperature = Num(57)
           /\ resp.daily["precipitation_sum"][i].nan

\* the response lacks `daily`, or `daily` lacks `time` or one of the series
LacksKey(r) == ~r.has_daily \/ SeriesKeys \ (DOMAIN r.daily) # {}

\* C13: on a response that lacks `daily`, `time` or one of the four series
\* transform raises and returns no tables
C13_MalformedResponseRaises ==
    (Transformed /\ LacksKey(resp)) =>
        /\ tout.err = "KeyError"
        /\ tout.raw_df = <<>> /\ tout.summary_df = <<>>

\* transform ran on a response whose `daily` holds `time` of one day and
\* lacks a series
C13_Witness ==
    /\ Transformed /\ resp.has_daily
    /\ "time" \in DOMAIN resp.daily /\ Len(resp.daily["time"]) = 1
    /\ "windspeed_10m_max" \notin DOMAIN resp.daily
    /\ tout.err = "KeyError"

\* transform ran on a response without `daily`
C13_WitnessNoDaily ==
    /\ Transformed /\ ~resp.has_daily /\ tout.err = "KeyError"

----------------------------------------------------------------------------
(* Properties of extract *)

Retryable(status) == status = 429 \/ (status >= 500 /\ status <= 599)

\* C14 as stated: a call of extract sends at most 3 requests, and a reply of
\* status 429 or 5xx is followed by another request while fewer than 3 were
\* sent
C14_AtMostThreeRequests ==
    http.called =>
        /\ Len(http.seen) <= 3
        /\ \A i \in DOMAIN http.seen :
               (Retryable(http.seen[i]) /\ i < 3) => i < Len(http.seen)

\* C14 amended: a call of extract sends at most 4 requests, the first and 3
\* retries; a reply is followed by another request exactly when its status is
\* 429, 500, 502, 503 or 504 and fewer than 4 requests were sent; the call
\* fails with RetryError when the fourth reply has such a status
C14_AtMostThreeRetries ==
    http.called =>
        /\ Len(http.seen) >= 1
        /\ Len(http.seen) <= 4
        /\ \A i \in DOMAIN http.seen :
               i < Len(http.seen)
                   <=> (http.seen[i] \in {429, 500, 502, 503, 504} /\ i < 4)
        /\ http.err = "RetryError"
               <=> (Len(http.seen) = 4 /\ http.seen[4] \in {429, 500, 502, 503, 504})

\* a call got 429, 503, 503 and then 200: three retries, four requests
C14_Witness ==
    /\ http.called
    /\ http.seen = <<429, 503, 503, 200>>
    /\ http.returned

\* a call gave up after the fourth 503
C14_WitnessExhausted ==
    /\ http.called
    /\ http.seen = <<503, 503, 503, 503>>
    /\ http.err = "RetryError"

\* C15: extract returns a response only when the last reply has a success
\* status; after a status that is not retried, or after the last retry, the
\* caller gets an error and no data, run_extract fails and pushes nothing,
\* and transform and load_raw do not run
C15_ExtractErrorSurfaces ==
    http.called =>
        LET final == http.seen[Len(http.seen)]
        IN  /\ http.returned <=> (final >= 200 /\ final <= 299)
            /\ http.returned => (http.err = "none" /\ xcom.raw_data = http.data)
            /\ ~http.returned =>
                   /\ http.err \in {"HTTPError", "RetryError"}
                   /\ http.data = NoData
                   /\ ti["extract"] = "failed"
                   /\ xcom = NoXCom
                   /\ ~Ran("transform") /\ ~Ran("load_raw")
                   /\ ti["transform"] \in {"none", "upstream_failed"}
                   /\ ti["load_raw"] \in {"none", "upstream_failed"}
                   /\ last = NoCall

\* the retries ran out on 503 and the run skipped transform and load_raw
C15_Witness ==
    /\ http.called /\ http.err = "RetryError"
    /\ http.seen = <<503, 503, 503, 503>>
    /\ ti["extract"] = "failed"
    /\ ti["transform"] = "upstream_failed"
    /\ ti["load_raw"] = "upstream_failed"

\* the server answered 404: no retry, HTTPError
C15_WitnessNotRetried ==
    /\ http.called /\ http.err = "HTTPError" /\ http.seen = <<404>>
    /\ ti["quality_check"] = "upstream_failed"

\* what one run without failure leaves in raw_weather when it starts from
\* `start` and fetches `data`: the rows of start, then, in the order of the
\* days, a row for each day of data whose key start does not hold
SingleRunResult(start, data) ==
    LET df == read_json(to_json(transform(data).raw_df)).rows
        rows == [i \in DOMAIN df |-> ToTableRow(df[i])]
    IN  start \o SelectSeq(rows, LAMBDA r : Key(r) \notin KeysOf(start))

AllSucceeded == \A t \in TaskIds : ti[t] = "success"

\* C17: when a run failed at some task and the pipeline was run again on the
\* same response until every task succeeded, raw_weather is what one run
\* without failure leaves from the table the failed run started from: no key
\* twice, and the rows stored before unchanged and in place
C17_RerunIsSafe ==
    (run.rerun /\ AllSucceeded) =>
        /\ raw_weather = SingleRunResult(run.start, run.data)
        /\ \A i, j \in DOMAIN raw_weather :
               i # j => Key(raw_weather[i]) # Key(raw_weather[j])
        /\ SubSeq(raw_weather, 1, Len(run.start)) = run.start

\* a run stored a row and failed in dbt_run, and its re-run went through
C17_Witness ==
    /\ run.rerun /\ AllSucceeded
    /\ run.failed_at = "dbt_run" /\ run.stored >= 1
    /\ run.start # <<>>

\* the failed run lost its rows when the insert aborted; the re-run stored them
C17_WitnessDuring ==
    /\ run.rerun /\ AllSucceeded
    /\ run.failed_at = "load_raw" /\ run.fault = "execute" /\ run.stored = 0
    /\ Len(raw_weather) > Len(run.start)

\* the failed run stored its rows and failed on the COUNT query
C17_WitnessCount ==
    /\ run.rerun /\ AllSucceeded
    /\ run.failed_at = "load_raw" /\ run.fault = "count" /\ run.stored >= 1

\* the failed run failed in extract
C17_WitnessBefore ==
    /\ run.rerun /\ AllSucceeded
    /\ run.failed_at = "extract"
    /\ Len(raw_weather) > Len(run.start)

----------------------------------------------------------------------------
(* Properties of the handoff from transform to load_raw, under SpecTransform *)

\* C18: the frame run_load_raw rebuilds from the JSON of a frame transform
\* returned has the six columns and the rows of that frame, in their order
C18_HandoffRoundTrip ==
    handoff.done =>
        /\ handoff.columns = RawColumns
        /\ handoff.rows = tout.raw_df

----------------------------------------------------------------------------
(* Properties of the dashboard, under SpecDash *)

\* C16: after a poll that failed to read the database, the page shows the
\* raw and summary content of the most recent poll that succeeded and the
\* error banner is visible
C16_RetainsLastData ==
    (dash.polled /\ dash.error /\ good.any) =>
        /\ dash.raw_content = good.raw_content
        /\ dash.summary_content = good.summary_content
        /\ dash.banner_visible

====
